---- MODULE Spec2Model ----
(***************************************************************************)
(* Model of dtf's module launch/dispatch engine (python-dtf/dtf/packages.py)*)
(* and of the built-in client module (python-dtf/dtf/core/cmds/client.py).  *)
(*                                                                         *)
(* One launch is in flight at a time (the engine is single-threaded).  A   *)
(* launch function runs atomically up to the point where it hands control  *)
(* to the module's operation (in-process) or to the child process (bash);  *)
(* what the operation or the child does next is a step of its own.         *)
(* Python values: None is PyNone (the empty tuple), the integer n is <<n>>. *)
(***************************************************************************)
EXTENDS Integers, Sequences, FiniteSets, TLC

\* ------------------------------------------------------------ bounds
MaxArgs == 3      \* longest argument list handed to a launch
MaxDeps == 2      \* longest `requires` list of a module
MaxSdk == 2       \* largest SDK level of a project or a module
MaxPrints == 1    \* console writes of one module operation
MaxLines == 2     \* output lines of one child process
MaxAddr == 3      \* longest address argument of `client mode`, in characters

\* ------------------------------------------------------------ return codes
RTN_PATH_ERROR == -7          \* __launch_python_module, library path
RTN_LOAD_ERROR == -9          \* __launch_python_module, load_source failed
RTN_NO_CLASS == -6            \* __launch_python_module, AttributeError
RTN_PRELAUNCH == -8           \* __launch_python_module, checks failed
RTN_NO_MAPPINGS == -14        \* __do_launch_python_module
RTN_NO_SUB_CMD == -15         \* __do_launch_python_module
RTN_UNHANDLED == -10          \* __do_launch_python_module, except Exception
RTN_KILLED == -11             \* __do_launch_python_module, KeyboardInterrupt
RTN_BASH_NOT_EXEC == -6       \* __launch_bash_module, not executable
RTN_BASH_UNHANDLED == -5      \* __launch_bash_module, except Exception
RTN_BASH_KILLED == -6         \* __launch_bash_module, KeyboardInterrupt

PyNone == <<>>
PyInt(n) == <<n>>

\* ------------------------------------------------------------ inputs
USAGE_TAGS == {"-h", "--help", "help"}

\* First words of an argument list, and the words that may follow.
FirstWords == {"-h", "--help", "help", "a", "b", "x"}
RestWords == {"x", "-h"}

RECURSIVE SeqsUpTo(_, _)
SeqsUpTo(S, n) ==
    IF n = 0 THEN {<<>>}
    ELSE LET shorter == SeqsUpTo(S, n - 1)
         IN  shorter \cup {Append(s, x) : s \in shorter, x \in S}

ArgLists ==
    {<<>>} \cup {<<w>> \o r : w \in FirstWords, r \in SeqsUpTo(RestWords, MaxArgs - 1)}

\* Methods a module class may tag with @sub_cmd, in the (alphabetical)
\* order inspect.getmembers() lists them.  do_h declares a keyword that is
\* also a usage tag, do_z declares the keyword of do_a a second time.
MethodOrder == <<"do_a", "do_b", "do_h", "do_z">>
TaggedMethods == {MethodOrder[i] : i \in 1..Len(MethodOrder)}
sub_cmd_name(m) ==
    IF m = "do_b" THEN "b" ELSE IF m = "do_h" THEN "help" ELSE "a"
\* Number of positional parameters of the method, self included.
NumParams(m) == IF m \in {"do_a", "do_h"} THEN 1 ELSE 2

Shapes == [execute : BOOLEAN, tagged : SUBSET TaggedMethods]

DepNames == {"adb", "aapt"}
RequiresLists == SeqsUpTo(DepNames, MaxDeps)
\* The 'sdk' property of the project: <<>> when get_prop raises PropertyError.
SdkProps == {<<>>} \cup {<<n>> : n \in 0..MaxSdk}

Files == {"missing", "plain", "exec"}
Scopes == {"builtin", "local", "global"}
\* Values a module operation may return.
OpReturns == {PyNone, PyInt(0), PyInt(-1)}

VARIABLES
    pc,       \* "idle" | "running" (module operation) | "bash" (child) | "done"
    frame,    \* the launch in flight
    ev,       \* what the dispatcher read and decided in its last step
    ret,      \* what the caller of the launch function gets
    out,      \* what was written to sys.stdout during this launch
    stdout,   \* the stream installed as sys.stdout: "tty" | "buf"
    cwd,      \* process working directory
    env,      \* keys injected into os.environ, LAUNCH_DIR's value
    TOP,      \* prop.TOP: the project root, or "None"
    client    \* the client module: project properties, device, last call

vars == <<pc, frame, ev, ret, out, stdout, cwd, env, TOP, client>>


\* ------------------------------------------------------------ the module file
\* What one launch reads of the world: the file at the computed path, what
\* loading it does, the class it defines, the project's properties, and
\* the argument list.
BaseInput ==
    [file |-> "plain", load |-> "ok", hasClass |-> TRUE, ctor |-> "ok",
     requires |-> <<>>, onPath |-> {}, sdk |-> <<MaxSdk>>, min_sdk |-> 0,
     shape |-> [execute |-> TRUE, tagged |-> {}], args |-> <<>>, spawn |-> "ok",
     fileNow |-> "plain"]

LoadOutcomes == {"ok", "Exception", "KeyboardInterrupt"}
CtorOutcomes == {"ok", "AttributeError", "Exception", "KeyboardInterrupt"}

\* Each slice varies what one stage of the launch reads and keeps the rest
\* at BaseInput (a stage never reads what a later stage reads).
LoadInputs ==
    {[BaseInput EXCEPT !.file = f, !.load = l] : f \in Files, l \in LoadOutcomes}
EntryInputs ==
    {[BaseInput EXCEPT !.hasClass = h, !.ctor = c] : h \in BOOLEAN, c \in CtorOutcomes}
CheckInputs ==
    {[BaseInput EXCEPT !.requires = r, !.onPath = p, !.sdk = s, !.min_sdk = m] :
        r \in RequiresLists, p \in SUBSET DepNames, s \in SdkProps, m \in 0..MaxSdk}
DispatchInputs ==
    {[BaseInput EXCEPT !.shape = sh, !.args = a] : sh \in Shapes, a \in ArgLists}
\* An executable artifact: its arguments, and whether Popen can spawn it.
\* fileNow is the file as utils.is_executable() finds it in the launcher:
\* the classifier read the permission bit earlier, in a call of its own,
\* and the bit may have been cleared since.
SpawnOutcomes == {"ok", "OSError"}
BashInputs ==
    {[BaseInput EXCEPT !.file = "exec", !.fileNow = "exec", !.args = a, !.spawn = sp] :
        a \in ArgLists, sp \in SpawnOutcomes}
    \cup {[BaseInput EXCEPT !.file = "exec", !.fileNow = "plain", !.args = a] :
             a \in {<<>>, <<"x">>}}
Inputs ==
    LoadInputs \cup EntryInputs \cup CheckInputs \cup DispatchInputs \cup BashInputs

\* pm.is_bash_module(path) and utils.is_executable(path): the executable
\* permission bit of the file, whatever its content.
is_bash_module(file) == file = "exec"
is_executable(file) == file = "exec"

\* ------------------------------------------------------------ stdout_redirector
\* Entering the context manager saves sys.stdout and installs the stream.
redirector_enter(redirect, current) == IF redirect THEN "buf" ELSE current
\* Leaving it, by return or by exception (try/finally), restores the saved one.
redirector_exit_noRestoreOnRaise(redirect, saved, current, how) ==
    IF redirect /\ how = "return" THEN saved ELSE current
redirector_exit(redirect, saved, current, how) ==
    IF redirect THEN saved ELSE current

\* ------------------------------------------------------------ prelaunch checks
\* __update_path() returns 0 on both of its paths.
update_path == 0

\* Index of the first requirement utils.which() does not find, 0 if none.
RECURSIVE FirstUnmet(_, _, _)
FirstUnmet(requires, onPath, i) ==
    IF i > Len(requires) THEN 0
    ELSE IF requires[i] \notin onPath THEN i
    ELSE FirstUnmet(requires, onPath, i + 1)

do_python_prelaunch_checks_versionFirst(requires, onPath, sdk, min_sdk) ==
    LET u == FirstUnmet(requires, onPath, 1)
        base == [rtn |-> -1, failed |-> "none", dep |-> "", which |-> 0,
                 sdkRead |-> TRUE]
    IN  IF sdk = <<>>
        THEN [base EXCEPT !.failed = "ConfigCorrupt"]
        ELSE IF min_sdk # 0 /\ sdk[1] < min_sdk
        THEN [base EXCEPT !.failed = "VersionTooLow"]
        ELSE IF u # 0
        THEN [base EXCEPT !.failed = "MissingDependency", !.dep = requires[u],
                          !.which = u]
        ELSE [base EXCEPT !.rtn = 0, !.which = Len(requires)]
\* __do_python_prelaunch_checks: rtn is its return value, failed the check
\* that failed, dep the requirement logged, which the requirements looked
\* up on the search path, sdkRead whether the 'sdk' property was read.
do_python_prelaunch_checks(requires, onPath, sdk, min_sdk) ==
    LET u == FirstUnmet(requires, onPath, 1)
        base == [rtn |-> -1, failed |-> "none", dep |-> "", which |-> Len(requires),
                 sdkRead |-> TRUE]
    IN  IF u # 0
        THEN [base EXCEPT !.failed = "MissingDependency", !.dep = requires[u],
                          !.which = u, !.sdkRead = FALSE]
        ELSE IF sdk = <<>>
        THEN [base EXCEPT !.failed = "ConfigCorrupt"]
        ELSE IF min_sdk # 0 /\ sdk[1] < min_sdk
        THEN [base EXCEPT !.failed = "VersionTooLow"]
        ELSE [base EXCEPT !.rtn = 0]


\* ------------------------------------------------------------ sub-command router
\* __determine_sub_cmd_map: keyword -> tagged method.  getmembers() lists
\* the members by name, and a later method overwrites an earlier one that
\* declares the same keyword.
determine_sub_cmd_map(tagged) ==
    LET keys == {sub_cmd_name(m) : m \in tagged}
        idx(k) == {i \in 1..Len(MethodOrder) :
                      MethodOrder[i] \in tagged /\ sub_cmd_name(MethodOrder[i]) = k}
        last(k) == CHOOSE i \in idx(k) : \A j \in idx(k) : j <= i
    IN  [k \in keys |-> MethodOrder[last(k)]]

\* __route_has_args: the bound method has a parameter besides self.
route_has_args_always(method) == TRUE
route_has_args(method) == NumParams(method) > 1

\* One write to sys.stdout.
Tok(kind, keys, n) == [t |-> kind, keys |-> keys, n |-> n]
\* __auto_generate_usage: the block lists every keyword of the map; returns 0.
auto_generate_usage_noReturn(sub_cmd_map) ==
    [text |-> <<Tok("usage", DOMAIN sub_cmd_map, 0)>>, rtn |-> PyNone]
auto_generate_usage(sub_cmd_map) ==
    [text |-> <<Tok("usage", DOMAIN sub_cmd_map, 0)>>, rtn |-> PyInt(0)]

\* __do_launch_python_module up to the call of the module's operation:
\*   end     "call" (callee is invoked with the positional arguments
\*           `passed`) or "return" (rtn is returned without calling anything)
\*   popped  whether args.pop(0) ran;  text: what was printed
Routed(end, rtn, callee, passed, popped, text, why) ==
    [end |-> end, rtn |-> rtn, callee |-> callee, passed |-> passed,
     popped |-> popped, text |-> text, why |-> why]

\* The else branch for a first argument that is no keyword of the map:
\* the usage block is printed, its value dropped, and -15 returned.
unknown_sub_cmd_noUsage(sub_cmd_map) ==
    Routed("return", PyInt(RTN_NO_SUB_CMD), "", <<>>, TRUE, <<>>, "UnknownSubCommand")
unknown_sub_cmd(sub_cmd_map) ==
    Routed("return", PyInt(RTN_NO_SUB_CMD), "", <<>>, TRUE,
           auto_generate_usage(sub_cmd_map).text, "UnknownSubCommand")

\* The sub_cmd branch once mappings exist ("Mappings exist. But do args?").
dispatch_sub_cmd_keywordFirst(sub_cmd_map, args) ==
    LET usage == auto_generate_usage(sub_cmd_map)
    IN  IF Len(args) = 0
        THEN Routed("return", usage.rtn, "", <<>>, FALSE, usage.text, "NoArguments")
        ELSE LET sub_cmd == Head(args)
                 rest == Tail(args)
             IN  IF sub_cmd \in DOMAIN sub_cmd_map
                 THEN LET launch == sub_cmd_map[sub_cmd]
                      IN  Routed("call", PyNone, launch,
                                 IF route_has_args(launch) THEN <<rest>> ELSE <<>>,
                                 TRUE, <<>>, "SubCommand")
                 ELSE IF sub_cmd \in USAGE_TAGS
                 THEN Routed("return", usage.rtn, "", <<>>, TRUE, usage.text, "Help")
                 ELSE unknown_sub_cmd(sub_cmd_map)
dispatch_sub_cmd(sub_cmd_map, args) ==
    LET usage == auto_generate_usage(sub_cmd_map)
    IN  IF Len(args) = 0
        THEN Routed("return", usage.rtn, "", <<>>, FALSE, usage.text, "NoArguments")
        ELSE LET sub_cmd == Head(args)
                 rest == Tail(args)
             IN  IF sub_cmd \in USAGE_TAGS
                 THEN Routed("return", usage.rtn, "", <<>>, TRUE, usage.text, "Help")
                 ELSE IF sub_cmd \in DOMAIN sub_cmd_map
                 THEN LET launch == sub_cmd_map[sub_cmd]
                      IN  Routed("call", PyNone, launch,
                                 IF route_has_args(launch) THEN <<rest>> ELSE <<>>,
                                 TRUE, <<>>, "SubCommand")
                 ELSE unknown_sub_cmd(sub_cmd_map)

\* The try body of __do_launch_python_module.
do_launch_python_module_noMappingCheck(shape, args) ==
    IF shape.execute
    THEN Routed("call", PyNone, "execute", <<args>>, FALSE, <<>>, "execute")
    ELSE dispatch_sub_cmd(determine_sub_cmd_map(shape.tagged), args)
do_launch_python_module_mappingsFirst(shape, args) ==
    LET sub_cmd_map == determine_sub_cmd_map(shape.tagged)
    IN  IF Cardinality(DOMAIN sub_cmd_map) # 0
        THEN dispatch_sub_cmd(sub_cmd_map, args)
        ELSE IF shape.execute
        THEN Routed("call", PyNone, "execute", <<args>>, FALSE, <<>>, "execute")
        ELSE Routed("return", PyInt(RTN_NO_MAPPINGS), "", <<>>, FALSE, <<>>,
                    "NoMappings")
do_launch_python_module(shape, args) ==
    IF shape.execute
    THEN Routed("call", PyNone, "execute", <<args>>, FALSE, <<>>, "execute")
    ELSE LET sub_cmd_map == determine_sub_cmd_map(shape.tagged)
         IN  IF Cardinality(DOMAIN sub_cmd_map) = 0
             THEN Routed("return", PyInt(RTN_NO_MAPPINGS), "", <<>>, FALSE, <<>>,
                         "NoMappings")
             ELSE dispatch_sub_cmd(sub_cmd_map, args)

\* ------------------------------------------------------------ dynamic loader
\* __launch_python_module after the chdir, up to the hand-over to
\* __do_launch_python_module:
\*   end      "return" (rtn) | "raise" (exc propagates) | "dispatch"
\*   why      the condition that ended the launch
\*   ctorRan  whether the class's constructor was entered
\*   checks   the prelaunch checks' result (rtn 0 when they were skipped)
\*   loadTried  whether imp.load_source was called
Loaded(end, rtn, exc, why, ctorRan, checks) ==
    [end |-> end, rtn |-> rtn, exc |-> exc, why |-> why, ctorRan |-> ctorRan,
     checks |-> checks, loadTried |-> why # "PathError" /\ end # "none"]

NoChecks == [rtn |-> 0, failed |-> "none", dep |-> "", which |-> 0, sdkRead |-> FALSE]

launch_python_module(in, skip_checks) ==
    IF update_path # 0
    THEN Loaded("return", PyInt(RTN_PATH_ERROR), "", "PathError", FALSE, NoChecks)
    \* imp.load_source under a bare except: a missing file (IOError), any
    \* exception of the unit's top-level code, and KeyboardInterrupt.
    \* (load_source returns the module or raises: "module is None", -5,
    \* has no input.)
    ELSE IF in.file = "missing"
    THEN Loaded("return", PyInt(RTN_LOAD_ERROR), "", "NotFound", FALSE, NoChecks)
    ELSE IF in.load # "ok"
    THEN Loaded("return", PyInt(RTN_LOAD_ERROR), "",
                IF in.load = "KeyboardInterrupt" THEN "InterruptedLoad" ELSE "LoadError",
                FALSE, NoChecks)
    \* getattr(module, cmd); mod_class() under except AttributeError
    ELSE IF ~in.hasClass
    THEN Loaded("return", PyInt(RTN_NO_CLASS), "", "EntryPointMissing", FALSE, NoChecks)
    ELSE IF in.ctor = "AttributeError"
    THEN Loaded("return", PyInt(RTN_NO_CLASS), "", "ConstructorFault", TRUE, NoChecks)
    ELSE IF in.ctor # "ok"
    THEN Loaded("raise", PyNone, in.ctor,
                IF in.ctor = "KeyboardInterrupt" THEN "InterruptedConstructor"
                ELSE "ConstructorFault",
                TRUE, NoChecks)
    ELSE LET checks == IF skip_checks THEN NoChecks
                       ELSE do_python_prelaunch_checks(in.requires, in.onPath,
                                                       in.sdk, in.min_sdk)
         IN  IF checks.rtn # 0
             THEN Loaded("return", PyInt(RTN_PRELAUNCH), "", checks.failed, TRUE, checks)
             ELSE Loaded("dispatch", PyNone, "", "none", TRUE, checks)


\* ------------------------------------------------------------ client module
\* core/cmds/client.py: the sub-commands mode, install and remove.
\* adb.MODE_USB and adb.MODE_WIFI, as the usage line of do_mode names them.
MODE_USB == "usb"
MODE_WIFI == "wifi"
\* First words of `client mode`, one of them no mode.
ModeWords == {"usb", "wifi", "lan"}
\* An address argument is a string, a sequence of characters.
AddrChars == {"h", ":"}
Addrs == SeqsUpTo(AddrChars, MaxAddr)
\* Argument lists of `client mode`: every address after "wifi", one
\* after the other first words, and one list with a word too many.
ModeArgs ==
    {<<>>} \cup {<<m>> : m \in ModeWords}
           \cup {<<MODE_WIFI, a>> : a \in Addrs}
           \cup {<<m, <<"h", ":", "h">> >> : m \in ModeWords \ {MODE_WIFI}}
           \cup {<<MODE_WIFI, <<"h", ":", "h">>, <<"h">> >>}

\* str.split(sep): the pieces between the separators, empty ones included.
RECURSIVE split(_, _)
split(str, sep) ==
    IF str = <<>> THEN << <<>> >>
    ELSE LET rest == split(Tail(str), sep)
         IN  IF Head(str) = sep THEN << <<>> >> \o rest
             ELSE << <<Head(str)>> \o Head(rest) >> \o Tail(rest)

\* The project's properties the client module writes: <<>> when the
\* property is absent, <<v>> when its value is v.
PropKeys == {"mode", "ip-addr", "port", "busybox"}
\* prop.set_prop(section, key, value) and prop.del_prop(section, key).
set_prop(props, key, value) == [props EXCEPT ![key] = <<value>>]
del_prop(props, key) == [props EXCEPT ![key] = <<>>]

\* What a sub-command finds around it: "KeyboardInterrupt" while
\* adb.wait_for_device() blocks, "IOError" from client.set_to_wifi() or
\* set_to_usb(), "failed" for an adb.install() that reports a failure.
ModeWorlds == {"ok", "IOError", "KeyboardInterrupt"}
InstallWorlds == {"ok", "failed", "KeyboardInterrupt"}
RemoveWorlds == {"ok", "KeyboardInterrupt"}

\* What a sub-command did: how it ended ("return" with rtn, or "raise"),
\* the properties and the device it leaves, the adb and client calls made.
Did(how, rtn, props, device, calls) ==
    [how |-> how, rtn |-> rtn, props |-> props, device |-> device, calls |-> calls]

\* client.do_mode(args)
do_mode_propertiesFirst(args, props, device, world) ==
    IF Len(args) < 1 THEN Did("return", -1, props, device, <<>>)
    ELSE IF Head(args) \notin {MODE_USB, MODE_WIFI}
    THEN Did("return", -2, props, device, <<>>)
    ELSE IF world = "KeyboardInterrupt"
    THEN Did("raise", 0, props, device, <<"wait_for_device">>)
    ELSE IF Head(args) = MODE_WIFI
    THEN IF Len(Tail(args)) # 1
         THEN Did("return", -3, props, device, <<"wait_for_device">>)
         ELSE LET parts == split(args[2], ":")
              IN  IF Len(parts) # 2
                  THEN Did("return", -4, props, device, <<"wait_for_device">>)
                  ELSE LET written ==
                               set_prop(set_prop(set_prop(props, "mode", MODE_WIFI),
                                                 "ip-addr", parts[1]), "port", parts[2])
                       IN  IF world = "IOError"
                           THEN Did("return", -5, written, device,
                                    <<"wait_for_device", "set_to_wifi">>)
                           ELSE Did("return", 0, written,
                                    [device EXCEPT !.conn = MODE_WIFI],
                                    <<"wait_for_device", "set_to_wifi">>)
    ELSE IF world = "IOError"
    THEN Did("raise", 0, set_prop(props, "mode", MODE_USB), device,
             <<"wait_for_device", "set_to_usb">>)
    ELSE Did("return", 0, set_prop(props, "mode", MODE_USB),
             [device EXCEPT !.conn = MODE_USB], <<"wait_for_device", "set_to_usb">>)
do_mode(args, props, device, world) ==
    IF Len(args) < 1 THEN Did("return", -1, props, device, <<>>)
    ELSE IF Head(args) \notin {MODE_USB, MODE_WIFI}
    THEN Did("return", -2, props, device, <<>>)
    ELSE IF world = "KeyboardInterrupt"
    THEN Did("raise", 0, props, device, <<"wait_for_device">>)
    ELSE IF Head(args) = MODE_WIFI
    THEN IF Len(Tail(args)) # 1
         THEN Did("return", -3, props, device, <<"wait_for_device">>)
         ELSE LET parts == split(args[2], ":")
              IN  \* "ip_address, port = args[0].split(':')" raises
                  \* ValueError unless there are exactly two pieces
                  IF Len(parts) # 2
                  THEN Did("return", -4, props, device, <<"wait_for_device">>)
                  ELSE IF world = "IOError"
                  THEN Did("return", -5, props, device,
                           <<"wait_for_device", "set_to_wifi">>)
                  ELSE Did("return", 0,
                           set_prop(set_prop(set_prop(props, "mode", MODE_WIFI),
                                             "ip-addr", parts[1]), "port", parts[2]),
                           [device EXCEPT !.conn = MODE_WIFI],
                           <<"wait_for_device", "set_to_wifi">>)
    \* set_to_usb() is called outside any try: an IOError propagates
    ELSE IF world = "IOError"
    THEN Did("raise", 0, props, device, <<"wait_for_device", "set_to_usb">>)
    ELSE Did("return", 0, set_prop(props, "mode", MODE_USB),
             [device EXCEPT !.conn = MODE_USB], <<"wait_for_device", "set_to_usb">>)

\* client.do_install(); apk_file: os.path.isfile(dtf_client_path).  The
\* value of adb.install() is dropped.
do_install(apk_file, props, device, world) ==
    IF ~apk_file THEN Did("return", -1, props, device, <<>>)
    ELSE IF world = "KeyboardInterrupt"
    THEN Did("raise", 0, props, device, <<"wait_for_device">>)
    ELSE Did("return", 0, set_prop(props, "busybox", "files/busybox"),
             [device EXCEPT !.apk = IF world = "failed" THEN "none" ELSE "new"],
             <<"wait_for_device", "uninstall", "install", "shell_command">>)

\* client.do_remove()
do_remove_keepsProperty(props, device, world) ==
    IF world = "KeyboardInterrupt"
    THEN Did("raise", 0, props, device, <<"wait_for_device">>)
    ELSE Did("return", 0, props, [device EXCEPT !.apk = "none"],
             <<"wait_for_device", "uninstall">>)
do_remove(props, device, world) ==
    IF world = "KeyboardInterrupt"
    THEN Did("raise", 0, props, device, <<"wait_for_device">>)
    ELSE Did("return", 0, del_prop(props, "busybox"),
             [device EXCEPT !.apk = "none"], <<"wait_for_device", "uninstall">>)

\* No sub-command of the client module was called yet.
NoCall ==
    [cmd |-> "", args |-> <<>>, apk_file |-> FALSE, world |-> "",
     how |-> "", rtn |-> 0, calls |-> <<>>]
\* A project as `dtf init` leaves it, and a device without the client.
ClientStart ==
    [props |-> [k \in PropKeys |-> IF k = "mode" THEN <<MODE_USB>> ELSE <<>>],
     device |-> [apk |-> "none", conn |-> MODE_USB],
     before |-> [k \in PropKeys |-> IF k = "mode" THEN <<MODE_USB>> ELSE <<>>],
     deviceBefore |-> [apk |-> "none", conn |-> MODE_USB],
     call |-> NoCall, last0 |-> ""]

\* ------------------------------------------------------------ state
NoRouted == Routed("none", PyNone, "", <<>>, FALSE, <<>>, "none")
NoLoaded == Loaded("none", PyNone, "", "none", FALSE, NoChecks)
NoEv ==
    [stage |-> "none", in |-> BaseInput, scope |-> "", chdir |-> FALSE,
     skip_checks |-> FALSE, redirect |-> FALSE, loaded |-> NoLoaded,
     routed |-> NoRouted, outcome |-> "", opret |-> PyNone,
     classified |-> FALSE, popen |-> FALSE]
NoEnv == [DTF_LOG |-> FALSE, DTF_CORE |-> FALSE, LAUNCH_DIR |-> "",
          ANDROID_SERIAL |-> FALSE]
\* cwd0 and env0: the working directory and the environment the launch
\* function found when it was called.
NoFrame ==
    [scope |-> "", kind |-> "", redirect |-> FALSE, saved |-> "tty",
     launch_dir |-> "", callee |-> "", ctorRan |-> FALSE, calls |-> 0,
     prints |-> 0, lines |-> 0, cwd0 |-> "", env0 |-> NoEnv]
\* how: "return" (val is the launch function's value; with redirect the
\* caller gets the pair (out, val)) | "raise" (exc propagates to the caller)
Result(how, val, exc, why) == [how |-> how, val |-> val, exc |-> exc, why |-> why]
NoRet == Result("none", PyNone, "", "none")

Init ==
    /\ pc = "idle"
    /\ frame = NoFrame
    /\ ev = NoEv
    /\ ret = NoRet
    /\ out = <<>>
    /\ stdout = "tty"
    /\ cwd = "start"
    /\ env = NoEnv
    /\ TOP \in {"None", "top"}
    /\ client = ClientStart

\* The launch function ends: the redirector (if any) is left, the caller
\* gets `res`.  `current` is the stream installed while the launch ran.
Complete(fr, current, res, text) ==
    /\ pc' = "done"
    /\ frame' = fr
    /\ ret' = res
    /\ out' = text
    /\ stdout' = redirector_exit(fr.redirect, fr.saved, current, res.how)

\* ------------------------------------------------------------ in-process launch
\* "if chdir and prop.TOP is not None: os.chdir(prop.TOP)"
python_chdir_away(chdir, top, current) == "/"
python_chdir(chdir, top, current) ==
    IF chdir /\ top # "None" THEN top ELSE current

\* launch_builtin_module / launch_local_module / launch_module reaching
\* __launch_python_module(path, cmd, args, chdir, skip_checks);
\* classified: the launch function asked pm.is_bash_module first.
StartPython(scope, in, chdir, skip_checks, redirect, classified) ==
    LET current == redirector_enter(redirect, stdout)
        l == launch_python_module(in, skip_checks)
        r == IF l.end = "dispatch" THEN do_launch_python_module(in.shape, in.args)
             ELSE NoRouted
        fr == [NoFrame EXCEPT !.scope = scope, !.kind = "python",
                              !.redirect = redirect, !.saved = stdout,
                              !.launch_dir = cwd, !.ctorRan = l.ctorRan,
                              !.cwd0 = cwd, !.env0 = env]
    IN  /\ pc = "idle"
        /\ cwd' = python_chdir(chdir, TOP, cwd)
        /\ ev' = [NoEv EXCEPT !.stage = "launch", !.in = in, !.scope = scope,
                              !.chdir = chdir, !.skip_checks = skip_checks,
                              !.redirect = redirect, !.loaded = l, !.routed = r,
                              !.classified = classified]
        /\ IF l.end = "return"
           THEN Complete(fr, current, Result("return", l.rtn, "", l.why), <<>>)
           ELSE IF l.end = "raise"
           THEN Complete(fr, current, Result("raise", PyNone, l.exc, l.why), <<>>)
           ELSE IF r.end = "return"
           THEN Complete(fr, current, Result("return", r.rtn, "", r.why), r.text)
           ELSE /\ pc' = "running"
                /\ frame' = [fr EXCEPT !.callee = r.callee, !.calls = 1]
                /\ ret' = NoRet
                /\ out' = <<>>
                /\ stdout' = current
        /\ UNCHANGED <<env, TOP, client>>


\* The try/except around the module's operation in
\* __do_launch_python_module: what the launch gives its caller when the
\* operation ends with `outcome` (v is the value it returned, if it did),
\* and what the handler prints.
OpOutcomes == {"return", "Exception", "KeyboardInterrupt", "SystemExit"}
operation_ended(outcome, v) ==
    IF outcome = "return"
    THEN [res |-> Result("return", v, "", "Returned"), text |-> <<>>]
    ELSE IF outcome = "Exception"
    THEN [res |-> Result("return", PyInt(RTN_UNHANDLED), "", "UnhandledFault"),
          text |-> <<Tok("trace", {}, 0)>>]
    ELSE IF outcome = "KeyboardInterrupt"
    THEN [res |-> Result("return", PyInt(RTN_KILLED), "", "Interrupted"), text |-> <<>>]
    ELSE [res |-> Result("raise", PyNone, outcome, "Exit"), text |-> <<>>]

\* The running operation prints to sys.stdout.
ModulePrints ==
    /\ pc = "running"
    /\ frame.prints < MaxPrints
    /\ frame' = [frame EXCEPT !.prints = @ + 1]
    /\ out' = Append(out, Tok("partial", {}, 0))
    /\ ev' = [NoEv EXCEPT !.stage = "print"]
    /\ UNCHANGED <<pc, ret, stdout, cwd, env, TOP, client>>

\* The running operation returns v.
ModuleReturns(v) ==
    LET e == operation_ended("return", v)
    IN  /\ pc = "running"
        /\ ev' = [NoEv EXCEPT !.stage = "op", !.outcome = "return", !.opret = v]
        /\ Complete(frame, stdout, e.res, out \o e.text)
        /\ UNCHANGED <<cwd, env, TOP, client>>

\* The running operation raises: a fault (Exception), a forced
\* interruption (KeyboardInterrupt), or sys.exit() (SystemExit, as
\* argparse does in client.do_upload on bad arguments).
ModuleRaises(exc) ==
    LET e == operation_ended(exc, PyNone)
    IN  /\ pc = "running"
        /\ ev' = [NoEv EXCEPT !.stage = "op", !.outcome = exc]
        /\ Complete(frame, stdout, e.res, out \o e.text)
        /\ UNCHANGED <<cwd, env, TOP, client>>

\* ------------------------------------------------------------ process launcher
\* popen.returncode after the output loop: nothing called wait() or poll(),
\* so it still holds the value Popen() gave it, whatever the child's code.
popen_returncode(code) == PyNone

\* The except clauses around Popen and the output loop.
bash_ended(exc) ==
    IF exc = "KeyboardInterrupt"
    THEN [res |-> Result("return", PyInt(RTN_BASH_KILLED), "", "Interrupted"),
          text |-> <<>>]
    ELSE [res |-> Result("return", PyInt(RTN_BASH_UNHANDLED), "", "SpawnFailure"),
          text |-> <<Tok("trace", {}, 0)>>]

\* "if not utils.is_executable(module_path): ... return -6"
bash_not_executable ==
    Result("return", PyInt(RTN_BASH_NOT_EXEC), "", "NotExecutable")

\* The environment handed to the child: os.environ itself, with the
\* helper scripts and the current directory written into it.
bash_environment(environ, current) ==
    [environ EXCEPT !.DTF_LOG = TRUE, !.DTF_CORE = TRUE, !.LAUNCH_DIR = current]

\* __launch_bash_module from "Update the environment" to the output loop:
\*   end    "return" | "raise" | "read" (the child runs, its output is read)
\*   dir, environ  the working directory and os.environ it leaves
\*   popen  whether subprocess.Popen was called
bash_spawn(in, top, current, environ) ==
    LET env1 == bash_environment(environ, current)
        env2 == [env1 EXCEPT !.ANDROID_SERIAL = TRUE]
    IN  \* os.chdir(None) raises TypeError, outside the try
        IF top = "None"
        THEN [end |-> "raise", res |-> Result("raise", PyNone, "TypeError", "NoProject"),
              text |-> <<>>, dir |-> current, environ |-> env1, popen |-> FALSE]
        ELSE IF in.spawn # "ok"
        THEN [end |-> "return", res |-> bash_ended("Exception").res,
              text |-> bash_ended("Exception").text,
              dir |-> top, environ |-> env2, popen |-> TRUE]
        ELSE [end |-> "read", res |-> NoRet, text |-> <<>>,
              dir |-> top, environ |-> env2, popen |-> TRUE]

\* __launch_bash_module(module_path, args) up to the output loop.
launch_bash_module_checkAfterSetup(in, top, current, environ) ==
    IF ~is_executable(in.fileNow)
    THEN [bash_spawn(in, top, current, environ) EXCEPT
              !.end = "return", !.res = bash_not_executable, !.text = <<>>,
              !.popen = FALSE]
    ELSE bash_spawn(in, top, current, environ)
launch_bash_module(in, top, current, environ) ==
    IF ~is_executable(in.fileNow)
    THEN [end |-> "return", res |-> bash_not_executable, text |-> <<>>,
          dir |-> current, environ |-> environ, popen |-> FALSE]
    ELSE bash_spawn(in, top, current, environ)

\* launch_local_module / launch_module reaching
\* __launch_bash_module(module_path, args).
StartBash(scope, in, redirect) ==
    LET current == redirector_enter(redirect, stdout)
        fr == [NoFrame EXCEPT !.scope = scope, !.kind = "bash",
                              !.redirect = redirect, !.saved = stdout,
                              !.launch_dir = cwd, !.cwd0 = cwd, !.env0 = env]
        b == launch_bash_module(in, TOP, cwd, env)
    IN  /\ pc = "idle"
        /\ ev' = [NoEv EXCEPT !.stage = "launch", !.in = in, !.scope = scope,
                              !.redirect = redirect, !.classified = TRUE,
                              !.popen = b.popen]
        /\ cwd' = b.dir
        /\ env' = b.environ
        /\ IF b.end = "read"
           THEN /\ pc' = "bash"
                /\ frame' = fr
                /\ ret' = NoRet
                /\ out' = <<>>
                /\ stdout' = current
           ELSE Complete(fr, current, b.res, b.text)
        /\ UNCHANGED <<TOP, client>>

\* The child writes a line; the loop writes it to sys.stdout.
ChildWrites ==
    /\ pc = "bash"
    /\ frame.lines < MaxLines
    /\ frame' = [frame EXCEPT !.lines = @ + 1]
    /\ out' = Append(out, Tok("line", {}, frame.lines + 1))
    /\ ev' = [NoEv EXCEPT !.stage = "line"]
    /\ UNCHANGED <<pc, ret, stdout, cwd, env, TOP, client>>

\* The child closes its output and exits with `code`.
ExitCodes == {0, 3}
ChildExits(code) ==
    /\ pc = "bash"
    /\ ev' = [NoEv EXCEPT !.stage = "child", !.outcome = "exit", !.opret = PyInt(code)]
    /\ Complete(frame, stdout,
                Result("return", popen_returncode(code), "", "ChildExit"), out)
    /\ UNCHANGED <<cwd, env, TOP, client>>

\* The output loop raises (a failing pipe or write), or is interrupted.
BashRaises(exc) ==
    LET e == bash_ended(exc)
    IN  /\ pc = "bash"
        /\ ev' = [NoEv EXCEPT !.stage = "child", !.outcome = exc]
        /\ Complete(frame, stdout, e.res, out \o e.text)
        /\ UNCHANGED <<cwd, env, TOP, client>>

\* ------------------------------------------------------------ launch functions
launch_builtin_module ==
    /\ pc = "idle"
    /\ \E in \in Inputs, chdir \in BOOLEAN, skip_checks \in BOOLEAN :
           StartPython("builtin", in, chdir, skip_checks, FALSE, FALSE)

launch_local_module ==
    /\ pc = "idle"
    /\ \E in \in Inputs :
           IF is_bash_module(in.file)
           THEN StartBash("local", in, FALSE)
           ELSE StartPython("local", in, TRUE, FALSE, FALSE, TRUE)

launch_module ==
    /\ pc = "idle"
    /\ \E in \in Inputs, redirect \in BOOLEAN :
           IF is_bash_module(in.file)
           THEN StartBash("global", in, redirect)
           ELSE StartPython("global", in, TRUE, FALSE, redirect, TRUE)

\* The caller of the launch function goes on with what it got.
CallerResumes ==
    /\ pc = "done"
    /\ pc' = "idle"
    /\ frame' = NoFrame
    /\ ev' = NoEv
    /\ ret' = NoRet
    /\ out' = <<>>
    /\ UNCHANGED <<stdout, cwd, env, TOP, client>>

Next ==
    \/ launch_builtin_module
    \/ launch_local_module
    \/ launch_module
    \/ ModulePrints
    \/ \E v \in OpReturns : ModuleReturns(v)
    \/ \E exc \in OpOutcomes \ {"return"} : ModuleRaises(exc)
    \/ ChildWrites
    \/ \E code \in ExitCodes : ChildExits(code)
    \/ \E exc \in {"Exception", "KeyboardInterrupt"} : BashRaises(exc)
    \/ CallerResumes

Spec == Init /\ [][Next]_vars

\* ------------------------------------------------------------ client sub-commands
\* A project found with or without the 'busybox' property, a device with
\* or without an old client.
ClientInit ==
    /\ pc = "idle"
    /\ frame = NoFrame
    /\ ev = NoEv
    /\ ret = NoRet
    /\ out = <<>>
    /\ stdout = "tty"
    /\ cwd = "start"
    /\ env = NoEnv
    /\ TOP = "top"
    /\ \E busybox \in {<<>>, <<"files/busybox">>}, apk \in {"none", "old"} :
          client = [ClientStart EXCEPT !.props["busybox"] = busybox,
                                       !.before["busybox"] = busybox,
                                       !.device.apk = apk,
                                       !.deviceBefore.apk = apk]

\* client.execute(args) ran the sub-command `cmd`, which did `d`.
Called(cmd, args, apk_file, world, d) ==
    /\ client' = [props |-> d.props, device |-> d.device,
                  before |-> client.props, deviceBefore |-> client.device,
                  call |-> [cmd |-> cmd, args |-> args, apk_file |-> apk_file,
                            world |-> world, how |-> d.how, rtn |-> d.rtn,
                            calls |-> d.calls],
                  last0 |-> IF d.how = "return" /\ d.rtn = 0 /\ cmd # "mode"
                            THEN cmd ELSE client.last0]
    /\ UNCHANGED <<pc, frame, ev, ret, out, stdout, cwd, env, TOP>>

\* execute(args) with sub_cmd 'mode', 'install', 'remove'.
client_mode ==
    /\ pc = "idle"
    /\ \E args \in ModeArgs, world \in ModeWorlds :
           Called("mode", args, FALSE, world,
                  do_mode(args, client.props, client.device, world))

client_install ==
    /\ pc = "idle"
    /\ \E apk_file \in BOOLEAN, world \in InstallWorlds :
           Called("install", <<>>, apk_file, world,
                  do_install(apk_file, client.props, client.device, world))

client_remove ==
    /\ pc = "idle"
    /\ \E world \in RemoveWorlds :
           Called("remove", <<>>, FALSE, world,
                  do_remove(client.props, client.device, world))

ClientNext ==
    \/ client_mode
    \/ client_install
    \/ client_remove

ClientSpec == ClientInit /\ [][ClientNext]_vars

\* ============================================================ properties
\* The launch that just ended, or just called the module's operation, went
\* through __launch_python_module and reached __do_launch_python_module.
Dispatched == ev.stage = "launch" /\ frame.kind = "python" /\ ev.loaded.end = "dispatch"
\* ... with a module that has no execute(): the declarative shape.
Declarative == Dispatched /\ ~ev.in.shape.execute
Keywords == {sub_cmd_name(m) : m \in ev.in.shape.tagged}
HelpAliases == {"-h", "--help", "help"}
UsageBlock == <<Tok("usage", Keywords, 0)>>
Position(m) == CHOOSE i \in 1..Len(MethodOrder) : MethodOrder[i] = m
\* The prelaunch checks of the launch that just ended ran.
Checked ==
    /\ pc = "done" /\ ev.stage = "launch" /\ frame.kind = "python"
    /\ ev.loaded.ctorRan /\ ev.in.ctor = "ok" /\ ~ev.skip_checks
DepsMet == \A i \in 1..Len(ev.in.requires) : ev.in.requires[i] \in ev.in.onPath

\* C1: every fault raised by loaded module code, in its constructor or in
\* its operation, is caught and the launch returns -10; nothing propagates.
C1_FaultsNeverEscape ==
    (/\ pc = "done" /\ frame.kind = "python"
     /\ \/ /\ ev.stage = "launch" /\ ev.loaded.ctorRan
           /\ ev.in.ctor \in {"AttributeError", "Exception"}
        \/ ev.stage = "op" /\ ev.outcome = "Exception")
    => ret.how = "return" /\ ret.val = <<-10>>

\* What an in-process launch of `in` gives its caller when it ends before
\* any operation of the module is called, and the condition that ended it.
EarlyEnd(in) ==
    LET l == launch_python_module(in, FALSE)
    IN  IF l.end = "dispatch"
        THEN LET r == do_launch_python_module(in.shape, in.args)
             IN  [why |-> r.why, val |-> r.rtn, returns |-> r.end = "return"]
        ELSE [why |-> l.why, val |-> l.rtn, returns |-> l.end = "return"]

\* C2: with all dependencies met and a minimum SDK above the project's, the
\* checks fail with VersionTooLow when the project's SDK is readable and
\* with ConfigCorrupt when it is not, and the value the launch returns
\* tells the two apart.
C2_VersionAndConfigDistinguished ==
    (Checked /\ DepsMet) =>
        /\ (ev.in.sdk # <<>> /\ ev.in.min_sdk > ev.in.sdk[1])
              => ret.why = "VersionTooLow"
        /\ (ev.in.sdk = <<>> /\ ev.in.min_sdk > 0)
              => ret.why = "ConfigCorrupt"
        /\ ret.why = "VersionTooLow"
              => \A other \in CheckInputs :
                    EarlyEnd(other).why = "ConfigCorrupt"
                       => EarlyEnd(other).val # ret.val

\* C3: every failure class has a negative code of its own: a launch that
\* fails returns a negative value that no launch failing in another class
\* returns.
FailureClasses ==
    {"NotFound", "NotExecutable", "EntryPointMissing", "LoadError",
     "MissingDependency", "VersionTooLow", "ConfigCorrupt", "NoMappings",
     "UnknownSubCommand", "UnhandledFault", "Interrupted"}
C3_DistinctNegativeCodes ==
    (pc = "done" /\ ret.how = "return" /\ ret.why \in FailureClasses) =>
        /\ ret.val # PyNone /\ ret.val[1] < 0
        /\ \A other \in Inputs :
              (/\ EarlyEnd(other).returns
               /\ EarlyEnd(other).why \in FailureClasses \ {ret.why})
                 => EarlyEnd(other).val # ret.val

\* C4 as claimed: an empty argument list to a declarative module with a
\* declared sub-command prints the usage block and returns -14.
C4_NoArgumentsReturnsNoMappings ==
    (pc = "done" /\ Declarative /\ ev.in.shape.tagged # {} /\ ev.in.args = <<>>)
    => out = UsageBlock /\ ret.how = "return" /\ ret.val = <<-14>>
\* C4 as amended: it prints the usage block, calls no operation and
\* returns 0, the value of __auto_generate_usage.
C4_NoArgumentsReturnsZero ==
    (Declarative /\ ev.in.shape.tagged # {} /\ ev.in.args = <<>>)
    => /\ pc = "done" /\ frame.calls = 0
       /\ out = UsageBlock /\ ret.how = "return" /\ ret.val = <<0>>
C4_Witness ==
    /\ pc = "done" /\ Declarative /\ ev.in.args = <<>>
    /\ ev.in.shape.tagged = {"do_a", "do_b"}
    /\ out = <<Tok("usage", {"a", "b"}, 0)>> /\ ret.val = <<0>>

\* C5: a first argument that is a help alias prints the usage block, calls
\* no operation and returns 0, whatever follows and whatever is declared.
C5_HelpPrintsUsageReturnsZero ==
    (/\ Declarative /\ ev.in.shape.tagged # {} /\ ev.in.args # <<>>
     /\ Head(ev.in.args) \in HelpAliases)
    => /\ pc = "done" /\ frame.calls = 0
       /\ out = UsageBlock /\ ret.how = "return" /\ ret.val = <<0>>
C5_Witness ==
    /\ pc = "done" /\ Declarative /\ "do_h" \in ev.in.shape.tagged
    /\ Len(ev.in.args) = 2 /\ Head(ev.in.args) = "help"
    /\ out = UsageBlock /\ ret.val = <<0>>

\* C6: without execute() and without tagged operations the launch returns
\* -14 for every argument list, pops no argument and prints no usage.
C6_NoMappingsForAnyArguments ==
    (Declarative /\ ev.in.shape.tagged = {})
    => /\ pc = "done" /\ frame.calls = 0 /\ ~ev.routed.popped
       /\ out = <<>> /\ ret.how = "return" /\ ret.val = <<-14>>
C6_Witness ==
    /\ pc = "done" /\ Declarative /\ ev.in.shape.tagged = {}
    /\ ev.in.args = <<"help", "x">> /\ ret.val = <<-14>>

\* C7: a first argument that is neither a help alias nor a declared
\* keyword prints the usage block, calls no operation and returns -15,
\* which is not what the help and the no-argument cases return.
C7_UnknownSubCommand ==
    (/\ Declarative /\ ev.in.shape.tagged # {} /\ ev.in.args # <<>>
     /\ Head(ev.in.args) \notin HelpAliases \cup Keywords)
    => /\ pc = "done" /\ frame.calls = 0
       /\ out = UsageBlock /\ ret.how = "return" /\ ret.val = <<-15>>
       /\ ret.val # do_launch_python_module(ev.in.shape, <<"help">>).rtn
       /\ ret.val # do_launch_python_module(ev.in.shape, <<>>).rtn
C7_Witness ==
    /\ pc = "done" /\ Declarative /\ ev.in.shape.tagged = {"do_a"}
    /\ ev.in.args = <<"b", "x">> /\ out = UsageBlock /\ ret.val = <<-15>>

\* The operation the router called is the one bound to the first argument,
\* called once, with the remaining arguments if it takes any.
CalledBoundOperation ==
    /\ pc = "running" /\ frame.calls = 1 /\ ev.routed.popped /\ out = <<>>
    /\ frame.callee \in ev.in.shape.tagged
    /\ sub_cmd_name(frame.callee) = Head(ev.in.args)
    /\ \A m \in ev.in.shape.tagged :
          sub_cmd_name(m) = Head(ev.in.args) => Position(m) <= Position(frame.callee)
    /\ ev.routed.passed = IF NumParams(frame.callee) > 1
                          THEN <<Tail(ev.in.args)>> ELSE <<>>
\* A sub-command operation that returned: its value is the launch's.
ReturnedOperationValue ==
    (pc = "done" /\ ev.stage = "op" /\ ev.outcome = "return" /\ frame.callee # "execute")
    => frame.calls = 1 /\ ret.how = "return" /\ ret.val = ev.opret

\* C8 as claimed: a first argument that equals a declared keyword is
\* consumed and the operation bound to it is called once, with the
\* remaining arguments in order if it takes arguments and with none if
\* not; the launch returns what the operation returns.
C8_KeywordInvokesBoundOperation ==
    /\ (Declarative /\ ev.in.args # <<>> /\ Head(ev.in.args) \in Keywords)
          => CalledBoundOperation
    /\ ReturnedOperationValue
\* C8 as amended: ... a declared keyword that is not a help alias ...
C8_NonHelpKeywordInvokesBoundOperation ==
    /\ (/\ Declarative /\ ev.in.args # <<>>
        /\ Head(ev.in.args) \in Keywords \ HelpAliases)
          => CalledBoundOperation
    /\ ReturnedOperationValue
C8_Witness ==
    /\ pc = "running" /\ Declarative /\ ev.in.shape.tagged = {"do_a", "do_b"}
    /\ ev.in.args = <<"b", "x", "-h">> /\ frame.callee = "do_b"
    /\ ev.routed.passed = << <<"x", "-h">> >>

\* C9: a module with execute() gets every launch: execute is called with
\* the whole argument list, nothing is popped, no usage is printed and no
\* tagged operation is called; the launch returns what execute returns.
C9_ExecuteAlwaysWins ==
    /\ (Dispatched /\ ev.in.shape.execute)
          => /\ pc = "running" /\ frame.callee = "execute" /\ frame.calls = 1
             /\ ev.routed.passed = <<ev.in.args>> /\ ~ev.routed.popped
             /\ out = <<>>
    /\ (pc = "done" /\ ev.stage = "op" /\ frame.callee = "execute")
          => /\ \A i \in 1..Len(out) : out[i].t # "usage"
             /\ ev.outcome = "return" => (ret.how = "return" /\ ret.val = ev.opret)
C9_Witness ==
    /\ pc = "running" /\ Dispatched /\ ev.in.shape.execute
    /\ ev.in.shape.tagged = {"do_a", "do_h"} /\ ev.in.args = <<"help">>
    /\ frame.callee = "execute"

\* C10: outside a launch sys.stdout is the stream that was installed at
\* the start, however the launches before ended.
C10_StdoutRestored ==
    pc \in {"idle", "done"} => stdout = "tty"
C10_Witness ==
    /\ pc = "done" /\ frame.redirect /\ ev.stage = "op" /\ ret.how = "raise"
    /\ stdout = "tty"

\* C11: a captured launch of a module that prints "partial" and then
\* faults returns the fault's code, -10, and the text "partial" alone.
C11_CapturedTextExactlyPartial ==
    (/\ pc = "done" /\ frame.redirect /\ frame.kind = "python"
     /\ ev.stage = "op" /\ ev.outcome = "Exception" /\ frame.prints = 1)
    => /\ ret.how = "return" /\ ret.val = <<-10>>
       /\ out = <<Tok("partial", {}, 0)>>

\* The lines the child has written so far, in the order it wrote them.
LinesInOrder == [i \in 1..frame.lines |-> Tok("line", {}, i)]
\* C12: every line of the child reaches sys.stdout in the order written,
\* and when the child exits with code c the launch returns c, never None.
C12_StreamsLinesReturnsExitCode ==
    /\ pc = "bash" => out = LinesInOrder
    /\ (pc = "done" /\ ev.stage = "child" /\ ev.outcome = "exit")
          => /\ out = LinesInOrder
             /\ ret.how = "return" /\ ret.val # PyNone /\ ret.val = ev.opret

\* C13: in every scope a launch of a name with no file at its path ends
\* with NotFound before the file is classified, spawned or loaded, and
\* with a code that neither a load error nor a missing entry point gives.
C13_NotFoundOwnCodeBeforeLoad ==
    (pc = "done" /\ ev.stage = "launch" /\ ev.in.file = "missing")
    => /\ ret.how = "return" /\ ret.why = "NotFound"
       /\ ~ev.classified /\ ~ev.popen /\ ~ev.loaded.loadTried
       /\ \A other \in LoadInputs \cup EntryInputs :
             EarlyEnd(other).why \in {"LoadError", "EntryPointMissing"}
                => EarlyEnd(other).val # ret.val

\* C14: an in-process launch that ends with a load error, a missing entry
\* point or a failed prelaunch check has run neither the constructor nor
\* any operation of the module's class.
C14_FailuresBeforeUserCode ==
    (/\ pc = "done" /\ frame.kind = "python" /\ ev.stage = "launch"
     /\ ret.how = "return"
     /\ ret.why \in {"LoadError", "EntryPointMissing", "MissingDependency",
                     "VersionTooLow", "ConfigCorrupt"})
    => ~frame.ctorRan /\ frame.calls = 0

\* C15: a KeyboardInterrupt while the module's operation runs, or while
\* the launcher reads the child's output, does not propagate; the launch
\* returns a code that is neither the unhandled-fault code nor any other
\* failure code of the path it took.
C15_InterruptedOwnCode ==
    (/\ pc = "done" /\ ev.stage \in {"op", "child"}
     /\ ev.outcome = "KeyboardInterrupt")
    => /\ ret.how = "return" /\ ret.why = "Interrupted"
       /\ ret.val # PyNone /\ ret.val[1] < 0
       /\ frame.kind = "python"
             => /\ ret.val # operation_ended("Exception", PyNone).res.val
                /\ \A other \in Inputs :
                      (EarlyEnd(other).returns /\ EarlyEnd(other).why \in FailureClasses)
                         => EarlyEnd(other).val # ret.val
       /\ frame.kind = "bash"
             => /\ ret.val # bash_ended("Exception").res.val
                /\ ret.val # bash_not_executable.val

\* C16 as claimed: when a launch has ended, the working directory, the
\* environment and sys.stdout are what they were when it was called.
C16_ContextRestored ==
    pc = "done" => cwd = frame.cwd0 /\ env = frame.env0 /\ stdout = frame.saved
\* C16 as amended: only sys.stdout is restored.  An in-process launch
\* leaves the environment alone and the process in the project root if it
\* switched there; an executable launch that passed the executability
\* check leaves its variables in the environment and, when there is a
\* project root, the process in it.
C16_OnlyStdoutRestored ==
    pc = "done" =>
       /\ stdout = frame.saved
       /\ cwd \in {frame.cwd0, TOP}
       /\ (frame.kind = "python" /\ ev.stage = "launch")
             => /\ env = frame.env0
                /\ (ev.chdir /\ TOP # "None") => cwd = TOP
                /\ ~(ev.chdir /\ TOP # "None") => cwd = frame.cwd0
       /\ (frame.kind = "bash" /\ ret.why # "NotExecutable")
             => /\ env.DTF_LOG /\ env.DTF_CORE /\ env.LAUNCH_DIR = frame.cwd0
                /\ TOP # "None" => (cwd = TOP /\ env.ANDROID_SERIAL)
                /\ TOP = "None" => cwd = frame.cwd0
C16_Witness ==
    /\ pc = "done" /\ frame.kind = "bash" /\ frame.redirect /\ ret.why = "ChildExit"
    /\ frame.cwd0 = "start" /\ cwd = "top" /\ frame.env0 = NoEnv
    /\ env.LAUNCH_DIR = "start" /\ env.ANDROID_SERIAL /\ stdout = "tty"

\* C17: when the launcher finds the file not executable it returns the
\* NotExecutable code, -6, without calling Popen, changing the directory
\* or writing to the environment; Popen is called for executable files only.
C17_NotExecutableBeforeAnyEffect ==
    /\ (ev.stage = "launch" /\ frame.kind = "bash" /\ ev.in.fileNow # "exec")
          => /\ pc = "done" /\ ret.how = "return"
             /\ ret.why = "NotExecutable" /\ ret.val = <<-6>>
             /\ ~ev.popen /\ out = <<>>
             /\ cwd = frame.cwd0 /\ env = frame.env0
    /\ (ev.popen \/ (ev.stage = "launch" /\ pc = "bash")) => ev.in.fileNow = "exec"
C17_Witness ==
    /\ pc = "done" /\ frame.kind = "bash" /\ ev.in.file = "exec"
    /\ ev.in.fileNow = "plain" /\ ret.why = "NotExecutable" /\ ret.val = <<-6>>
    /\ TOP = "top" /\ cwd = "start" /\ env = NoEnv

\* C18: the launch_dir of every module instance, and LAUNCH_DIR whenever
\* it is set, is the directory the process started in.
C18_LaunchDirIsOriginalDirectory ==
    /\ (/\ ev.stage = "launch" /\ frame.kind = "python"
        /\ frame.ctorRan /\ ev.in.ctor = "ok")
          => frame.launch_dir = "start"
    /\ env.LAUNCH_DIR \in {"", "start"}

\* C19: in every scope the file is classified before it is run; an
\* executable one goes to the process launcher and is not loaded, any
\* other goes to the loader and is not spawned.
C19_ClassifiedBeforeRun ==
    ev.stage = "launch"
    => /\ ev.classified
       /\ ev.in.file = "exec" => (frame.kind = "bash" /\ ~ev.loaded.loadTried)
       /\ ev.in.file # "exec" => (frame.kind = "python" /\ ~ev.popen)

\* C20: with a requirement that is not on the search path the checks fail
\* with MissingDependency for the first such requirement in declared
\* order, look up no requirement after it and do not read the project's
\* SDK; the launch is the same for every SDK property, readable or not,
\* and every minimum SDK.
C20_DependenciesBeforeVersion ==
    (Checked /\ ~DepsMet) =>
       LET r == ev.in.requires
           c == ev.loaded.checks
           u == CHOOSE i \in 1..Len(r) :
                    r[i] \notin ev.in.onPath /\ \A j \in 1..(i - 1) : r[j] \in ev.in.onPath
       IN  /\ ret.how = "return" /\ ret.why = "MissingDependency"
           /\ ret.val = <<-8>> /\ frame.calls = 0
           /\ c.failed = "MissingDependency" /\ c.dep = r[u] /\ c.which = u
           /\ ~c.sdkRead
           /\ \A s \in SdkProps, m \in 0..MaxSdk :
                 launch_python_module([ev.in EXCEPT !.sdk = s, !.min_sdk = m], FALSE)
                    = ev.loaded
C20_Witness ==
    /\ Checked /\ ev.in.requires = <<"adb", "aapt">> /\ ev.in.onPath = {"adb"}
    /\ ev.in.sdk = <<>> /\ ev.in.min_sdk = 1
    /\ ret.why = "MissingDependency" /\ ev.loaded.checks.dep = "aapt"

\* C21: a failure of the unit's top-level code ends the launch with
\* LoadError, a unit without a class named like the command ends it with
\* EntryPointMissing, and the launch reports EntryPointMissing (its code,
\* the one a unit without the class gets) for no unit that has the class.
C21_EntryPointMissingOnlyWhenAbsent ==
    (pc = "done" /\ frame.kind = "python" /\ ev.stage = "launch"
     /\ ev.in.file # "missing")
    => /\ ev.in.load = "Exception"
             => (ret.how = "return" /\ ret.why = "LoadError" /\ ret.val = <<-9>>)
       /\ (ev.in.load = "ok" /\ ~ev.in.hasClass)
             => (ret.how = "return" /\ ret.why = "EntryPointMissing")
       /\ (/\ ret.how = "return"
           /\ ret.val = EarlyEnd([BaseInput EXCEPT !.hasClass = FALSE]).val)
             => ~ev.in.hasClass

\* Number of ':' in an address argument.
Colons(a) == Cardinality({i \in 1..Len(a) : a[i] = ":"})
ModeUnchanged ==
    \A k \in {"mode", "ip-addr", "port"} : client.props[k] = client.before[k]
\* C22: a call of `client mode` that returns non-zero (no argument, a word
\* that is no mode, wifi without exactly one address, an address that is
\* not ip:port, an IOError of the reconfiguration) leaves the properties
\* mode, ip-addr and port as they were, as does one that raises; one that
\* returns 0 has reconfigured the device client and leaves the property
\* mode equal to the mode asked for.
C22_ModePropertiesOnlyAfterSuccess ==
    client.call.cmd = "mode" =>
       LET c == client.call
           args == client.call.args
       IN  /\ (c.how = "return" /\ c.rtn # 0) => ModeUnchanged
           /\ c.how = "raise" => ModeUnchanged
           /\ (c.how = "return" /\ c.rtn = 0)
                 => /\ Len(args) >= 1 /\ client.props["mode"] = <<args[1]>>
                    /\ c.world = "ok" /\ client.device.conn = args[1]
                    /\ c.calls[Len(c.calls)] \in {"set_to_wifi", "set_to_usb"}
           /\ (\/ args = <<>>
               \/ args[1] \notin {"usb", "wifi"}
               \/ /\ args[1] = "wifi" /\ c.world # "KeyboardInterrupt"
                  /\ (Len(args) # 2 \/ Colons(args[2]) # 1 \/ c.world = "IOError"))
                 => (c.how = "return" /\ c.rtn # 0)
C22_Witness ==
    /\ client.call.cmd = "mode" /\ client.call.args = <<"wifi", <<"h", ":", "h">> >>
    /\ client.call.world = "IOError" /\ client.call.rtn = -5
    /\ client.before["mode"] = <<"usb">> /\ client.props["mode"] = <<"usb">>
    /\ client.props["ip-addr"] = <<>>

BusyboxPresent == client.props["busybox"] # <<>>
\* C23: after any sequence of `client install` and `client remove` the
\* property busybox is present if the last of them to return 0 was an
\* install and absent if it was a remove; an install without the APK file
\* returns -1, calls nothing on the device and changes no property; an
\* install that returns 0 has uninstalled before it installed; a remove
\* that returns has deleted the property.
C23_BusyboxFollowsLastSuccess ==
    LET c == client.call
    IN  /\ client.last0 = "install" => BusyboxPresent
        /\ client.last0 = "remove" => ~BusyboxPresent
        /\ (c.cmd = "install" /\ ~c.apk_file)
              => /\ c.how = "return" /\ c.rtn = -1 /\ c.calls = <<>>
                 /\ client.props = client.before
                 /\ client.device = client.deviceBefore
        /\ (c.cmd = "install" /\ c.how = "return" /\ c.rtn = 0)
              => /\ BusyboxPresent
                 /\ \E i, j \in 1..Len(c.calls) :
                       i < j /\ c.calls[i] = "uninstall" /\ c.calls[j] = "install"
        /\ (c.cmd = "remove" /\ c.how = "return")
              => /\ c.rtn = 0 /\ ~BusyboxPresent
                 /\ \E i \in 1..Len(c.calls) : c.calls[i] = "uninstall"
C23_Witness ==
    /\ client.call.cmd = "install" /\ ~client.call.apk_file /\ client.call.rtn = -1
    /\ client.last0 = "remove" /\ ~BusyboxPresent /\ client.deviceBefore.apk = "none"

====
